---- MODULE Spec2Model ----
(***************************************************************************)
(* The Bril reference interpreter (brili) with the manually managed heap:  *)
(* runtime values, the heap of fat pointers, the instruction interpreter   *)
(* evalInstr, call semantics evalCall, the control-flow driver             *)
(* evalFuncInEnv and the program driver evalProg / main.                   *)
(***************************************************************************)
EXTENDS Integers, Sequences, FiniteSets, TLC

VARIABLES pool, status, exc, frames, heap, out, last, shadow, declared

vars == <<pool, status, exc, frames, heap, out, last, shadow, declared>>

(***************************************************************************)
(* Bounds of the model.                                                    *)
(***************************************************************************)
\* number of instructions main's body may hold
MaxBody == 5
\* number of blocks the heap hands out in one run
MaxAllocs == 2
\* depth of the call stack (main included)
MaxDepth == 3
\* integers and pointer offsets range over -MaxInt .. MaxInt
MaxInt == 2
\* print lines kept
MaxOut == 2

IntRange == (0 - MaxInt) .. MaxInt

(***************************************************************************)
(* Runtime values.  `t` is what JavaScript's typeof answers for the value. *)
(***************************************************************************)
IntV(n) == [t |-> "bigint", n |-> n]
BoolV(b) == [t |-> "boolean", b |-> b]
Key(b, o) == [base |-> b, offset |-> o]
Pointer(loc, type) == [t |-> "object", loc |-> loc, type |-> type]
\* Map.get of an absent key, an array slot never assigned
Undefined == [t |-> "undefined"]
\* ReturnValue null
Null == [t |-> "null"]

TypeOf(v) == v.t

brilTypeToDynamicType(typ) ==
  CASE typ = "int" -> "bigint"
    [] typ = "bool" -> "boolean"
    [] typ = "ptr" -> "object"
    [] OTHER -> "undefined"

\* Key.add: same allocation, offset shifted, nothing validated
KeyAdd(key, n) == Key(key.base, key.offset + n)

(***************************************************************************)
(* Exceptions.  cls is the class of the thrown object: a BriliError, a     *)
(* bare string (throw `...`), or the host's RangeError.                    *)
(***************************************************************************)
NoExc == [cls |-> "none", msg |-> "none"]
BriliError(msg) == [cls |-> "BriliError", msg |-> msg]
StringThrow(msg) == [cls |-> "string", msg |-> msg]
RangeError(msg) == [cls |-> "RangeError", msg |-> msg]

Ok(v) == [ok |-> TRUE, val |-> v]
Err(e) == [ok |-> FALSE, exc |-> e]

(***************************************************************************)
(* The heap: live blocks by allocation identifier, and the next            *)
(* identifier.  A failing operation throws an object of the heap module,   *)
(* which cannot be a BriliError (that class is private to the interpreter).*)
(***************************************************************************)
EmptyHeap == [storage |-> <<>>, count |-> 0]

HeapIsEmpty(h) == DOMAIN h.storage = {}

HeapLive(h, b) == b \in DOMAIN h.storage

HeapAlloc(h, amt) ==
  IF amt <= 0
    THEN [ok |-> FALSE, exc |-> StringThrow("alloc-size"), heap |-> h]
    ELSE [ok |-> TRUE,
          val |-> Key(h.count, 0),
          heap |-> [storage |-> [b \in DOMAIN h.storage \cup {h.count} |->
                                   IF b = h.count
                                     THEN [k \in 1..amt |-> Undefined]
                                     ELSE h.storage[b]],
                    count |-> h.count + 1]]

HeapFree(h, key) ==
  IF HeapLive(h, key.base) /\ key.offset = 0
    THEN [ok |-> TRUE,
          heap |-> [h EXCEPT !.storage =
                      [b \in DOMAIN h.storage \ {key.base} |-> h.storage[b]]]]
    ELSE [ok |-> FALSE, exc |-> StringThrow("invalid-free"), heap |-> h]

HeapInBounds(h, key) ==
  /\ HeapLive(h, key.base)
  /\ key.offset >= 0
  /\ key.offset < Len(h.storage[key.base])

HeapWrite(h, key, val) ==
  IF HeapInBounds(h, key)
    THEN [ok |-> TRUE,
          heap |-> [h EXCEPT !.storage[key.base][key.offset + 1] = val]]
    ELSE [ok |-> FALSE, exc |-> StringThrow("invalid-access"), heap |-> h]

\* read hands back the slot as it is; a slot never written is Undefined, which
\* its one caller (load) turns into the uninitialized-read failure
HeapRead(h, key) ==
  IF HeapInBounds(h, key)
    THEN Ok(h.storage[key.base][key.offset + 1])
    ELSE Err(StringThrow("invalid-access"))

(***************************************************************************)
(* Programs.  An entry of a function's instruction list is a label         *)
(* [label |-> l] or an operation, a record with field op.                  *)
(***************************************************************************)
NoDest == "undefined"
NoType == "undefined"

NumLit(n) == [num |-> n]
BoolLit(b) == [bool |-> b]

Lbl(l) == [label |-> l]
Const(dest, type, lit) == [op |-> "const", dest |-> dest, type |-> type, value |-> lit]
\* a value operation: dest, type and args
VOp(op, dest, type, args) == [op |-> op, dest |-> dest, type |-> type, args |-> args]
\* an effect operation: args only
EOp(op, args) == [op |-> op, args |-> args]
\* the type of an alloc is a pointer type {ptr: t}, an object, written here
\* "ptr<t>"; PtrOf is its field ptr
PointerTypes == {"ptr<int>", "ptr<bool>", "ptr<ptr<int>>"}
IsObjectType(type) == type \in PointerTypes
PtrOf(ptrType) ==
  CASE ptrType = "ptr<int>" -> "int"
    [] ptrType = "ptr<bool>" -> "bool"
    [] ptrType = "ptr<ptr<int>>" -> "ptr<int>"
Alloc(dest, ptrType, args) ==
  [op |-> "alloc", dest |-> dest, type |-> ptrType, args |-> args]
Call(name, dest, type, args) ==
  [op |-> "call", name |-> name, dest |-> dest, type |-> type, args |-> args]

IsOp(line) == "op" \in DOMAIN line

Arg(name, type) == [name |-> name, type |-> type]
Function(name, args, type, instrs) ==
  [name |-> name, args |-> args, type |-> type, instrs |-> instrs]

argCounts(op) ==
  CASE op \in {"add", "mul", "sub", "div", "lt", "le", "gt", "ge", "eq",
               "and", "or", "store", "ptradd"} -> 2
    [] op \in {"id", "not", "jmp", "alloc", "free", "load"} -> 1
    [] op = "br" -> 3
    [] op = "nop" -> 0
    [] OTHER -> -1

\* print, ret and call take any number here (null in the table)
HasFixedCount(op) == op \notin {"print", "ret", "call"}

KnownOps ==
  {"add", "mul", "sub", "div", "id", "lt", "le", "gt", "ge", "eq", "not", "and",
   "or", "print", "br", "jmp", "ret", "nop", "call", "alloc", "free", "store",
   "load", "ptradd"}

(***************************************************************************)
(* Argument access.                                                        *)
(***************************************************************************)
get(env, ident) ==
  IF env[ident] = Undefined
    THEN Err(BriliError("undefined-variable"))
    ELSE Ok(env[ident])

\* index counts from 0, as in the source
getArgument(instr, env, index, typ) ==
  LET r == get(env, instr.args[index + 1])
  IN  IF ~r.ok THEN r
      ELSE IF brilTypeToDynamicType(typ) # TypeOf(r.val)
        THEN Err(BriliError("type-mismatch"))
        ELSE r

getInt(instr, env, index) == getArgument(instr, env, index, "int")

getBool(instr, env, index) == getArgument(instr, env, index, "bool")

getPtr(instr, env, index) ==
  LET r == get(env, instr.args[index + 1])
  IN  IF ~r.ok THEN r
      ELSE IF TypeOf(r.val) # "object"
        THEN Err(StringThrow("not-a-pointer"))
        ELSE r

\* mutant: only too few arguments are an error
checkArgsAtLeast(instr, count) ==
  IF Len(instr.args) < count THEN BriliError("arity") ELSE NoExc

checkArgs(instr, count) ==
  IF Len(instr.args) # count THEN BriliError("arity") ELSE NoExc

(***************************************************************************)
(* The interpreter's alloc: checks the pointer type and the amount, then   *)
(* asks the heap; pointee types other than int and bool collapse to ptr.   *)
(***************************************************************************)
\* mutant: every pointee type but int collapses to ptr
allocCollapsesBool(ptrType, amt, h) ==
  IF ~IsObjectType(ptrType)
    THEN [ok |-> FALSE, exc |-> StringThrow("unspecified-pointer-type"), heap |-> h]
  ELSE IF amt <= 0
    THEN [ok |-> FALSE, exc |-> StringThrow("alloc-size"), heap |-> h]
  ELSE LET a == HeapAlloc(h, amt)
           dataType == IF PtrOf(ptrType) # "int" THEN "ptr" ELSE PtrOf(ptrType)
       IN  IF ~a.ok THEN a
           ELSE [ok |-> TRUE, val |-> Pointer(a.val, dataType), heap |-> a.heap]

alloc(ptrType, amt, h) ==
  IF ~IsObjectType(ptrType)
    THEN [ok |-> FALSE, exc |-> StringThrow("unspecified-pointer-type"), heap |-> h]
  ELSE IF amt <= 0
    THEN [ok |-> FALSE, exc |-> StringThrow("alloc-size"), heap |-> h]
  ELSE LET a == HeapAlloc(h, amt)
           dataType == IF PtrOf(ptrType) # "int" /\ PtrOf(ptrType) # "bool"
                         THEN "ptr" ELSE PtrOf(ptrType)
       IN  IF ~a.ok THEN a
           ELSE [ok |-> TRUE, val |-> Pointer(a.val, dataType), heap |-> a.heap]

(***************************************************************************)
(* The Action evalInstr answers with, and the state it leaves.             *)
(***************************************************************************)
NEXT == [next |-> TRUE]
JumpTo(l) == [label |-> l]
End(v) == [end |-> v]
Throw(e) == [throw |-> e]

Res(action, env, h, o) == [action |-> action, env |-> env, heap |-> h, out |-> o]

Bind(instr, env, h, o, val) ==
  Res(NEXT, [env EXCEPT ![instr.dest] = val], h, o)

Thrown(e, env, h, o) == Res(Throw(e), env, h, o)

\* BigInt division truncates toward zero
TruncDiv(x, y) ==
  LET ax == IF x < 0 THEN 0 - x ELSE x
      ay == IF y < 0 THEN 0 - y ELSE y
      q == ax \div ay
  IN  IF (x < 0) = (y < 0) THEN q ELSE 0 - q

IntResult(op, x, y) ==
  CASE op = "add" -> IntV(x + y)
    [] op = "mul" -> IntV(x * y)
    [] op = "sub" -> IntV(x - y)
    [] op = "div" -> IntV(TruncDiv(x, y))
    [] op = "le" -> BoolV(x <= y)
    [] op = "lt" -> BoolV(x < y)
    [] op = "gt" -> BoolV(x > y)
    [] op = "ge" -> BoolV(x >= y)
    [] op = "eq" -> BoolV(x = y)

\* add, mul, sub, div, le, lt, gt, ge, eq: left operand first
EvalIntBinary(instr, env, h, o) ==
  LET x == getInt(instr, env, 0)
      y == getInt(instr, env, 1)
  IN  IF ~x.ok THEN Thrown(x.exc, env, h, o)
      ELSE IF ~y.ok THEN Thrown(y.exc, env, h, o)
      ELSE IF instr.op = "div" /\ y.val.n = 0
        THEN Thrown(RangeError("divide-by-zero"), env, h, o)
      ELSE Bind(instr, env, h, o, IntResult(instr.op, x.val.n, y.val.n))

EvalNot(instr, env, h, o) ==
  LET x == getBool(instr, env, 0)
  IN  IF ~x.ok THEN Thrown(x.exc, env, h, o)
      ELSE Bind(instr, env, h, o, BoolV(~x.val.b))

\* getBool(0) && getBool(1), getBool(0) || getBool(1): the right operand is
\* fetched only when the left one does not decide the result
EvalAndOr(instr, env, h, o) ==
  LET x == getBool(instr, env, 0)
      y == getBool(instr, env, 1)
      decided == IF instr.op = "and" THEN ~x.val.b ELSE x.val.b
  IN  IF ~x.ok THEN Thrown(x.exc, env, h, o)
      ELSE IF decided THEN Bind(instr, env, h, o, x.val)
      ELSE IF ~y.ok THEN Thrown(y.exc, env, h, o)
      ELSE Bind(instr, env, h, o, y.val)

(***************************************************************************)
(* print: each argument's value.toString(), one line per print.            *)
(***************************************************************************)
Digit(d) ==
  CASE d = 0 -> "0" [] d = 1 -> "1" [] d = 2 -> "2" [] d = 3 -> "3" [] d = 4 -> "4"
    [] d = 5 -> "5" [] d = 6 -> "6" [] d = 7 -> "7" [] d = 8 -> "8" [] d = 9 -> "9"

RECURSIVE NatToString(_)
NatToString(n) ==
  IF n < 10 THEN Digit(n) ELSE NatToString(n \div 10) \o Digit(n % 10)

toString(val) ==
  CASE TypeOf(val) = "bigint" ->
         IF val.n < 0 THEN "-" \o NatToString(0 - val.n) ELSE NatToString(val.n)
    [] TypeOf(val) = "boolean" -> IF val.b THEN "true" ELSE "false"
    [] OTHER -> "[object Object]"

\* mutant: print emits the values found before the unbound argument, then
\* throws
EvalPrintEmitsBeforeCheck(instr, env, h, o) ==
  LET bad == {i \in 1..Len(instr.args) : ~get(env, instr.args[i]).ok}
      firstBad == CHOOSE i \in bad : \A j \in bad : i <= j
  IN  IF bad # {}
        THEN Thrown(BriliError("undefined-variable"), env, h,
                    Append(o, [i \in 1..(firstBad - 1) |-> toString(env[instr.args[i]])]))
        ELSE Res(NEXT, env, h,
                 Append(o, [i \in 1..Len(instr.args) |-> toString(env[instr.args[i]])]))

EvalPrint(instr, env, h, o) ==
  LET bad == {i \in 1..Len(instr.args) : ~get(env, instr.args[i]).ok}
  IN  IF bad # {}
        THEN Thrown(BriliError("undefined-variable"), env, h, o)
        ELSE Res(NEXT, env, h,
                 Append(o, [i \in 1..Len(instr.args) |-> toString(env[instr.args[i]])]))

EvalConst(instr, env, h, o) ==
  LET value == IF "num" \in DOMAIN instr.value
                 THEN IntV(instr.value.num)
                 ELSE BoolV(instr.value.bool)
  IN  Bind(instr, env, h, o, value)

EvalId(instr, env, h, o) ==
  LET val == get(env, instr.args[1])
  IN  IF ~val.ok THEN Thrown(val.exc, env, h, o)
      ELSE Bind(instr, env, h, o, val.val)

EvalBr(instr, env, h, o) ==
  LET cond == getBool(instr, env, 0)
  IN  IF ~cond.ok THEN Thrown(cond.exc, env, h, o)
      ELSE IF cond.val.b THEN Res(JumpTo(instr.args[2]), env, h, o)
      ELSE Res(JumpTo(instr.args[3]), env, h, o)

EvalRet(instr, env, h, o) ==
  LET argCount == Len(instr.args)
      val == get(env, instr.args[1])
  IN  IF argCount = 0 THEN Res(End(Null), env, h, o)
      ELSE IF argCount = 1
        THEN IF ~val.ok THEN Thrown(val.exc, env, h, o)
             ELSE Res(End(val.val), env, h, o)
      ELSE Thrown(BriliError("arity"), env, h, o)

(***************************************************************************)
(* The memory operations.                                                  *)
(***************************************************************************)
EvalAlloc(instr, env, h, o) ==
  LET amt == getInt(instr, env, 0)
      ptr == alloc(instr.type, amt.val.n, h)
  IN  IF ~amt.ok THEN Thrown(amt.exc, env, h, o)
      ELSE IF ~ptr.ok THEN Thrown(ptr.exc, env, h, o)
      ELSE Bind(instr, env, ptr.heap, o, ptr.val)

\* mutant: free ignores the pointer's offset and frees the block it points into
EvalFreeAnyOffset(instr, env, h, o) ==
  LET val == getPtr(instr, env, 0)
      f == HeapFree(h, Key(val.val.loc.base, 0))
  IN  IF ~val.ok THEN Thrown(val.exc, env, h, o)
      ELSE IF ~f.ok THEN Thrown(f.exc, env, h, o)
      ELSE Res(NEXT, env, f.heap, o)

\* mutant: free fetches its argument with get, so a value that is no pointer
\* reaches the heap, which rejects it as an invalid free
EvalFreeNoPointerCheck(instr, env, h, o) ==
  LET val == get(env, instr.args[1])
      f == HeapFree(h, val.val.loc)
  IN  IF ~val.ok THEN Thrown(val.exc, env, h, o)
      ELSE IF TypeOf(val.val) # "object"
        THEN Thrown(StringThrow("invalid-free"), env, h, o)
      ELSE IF ~f.ok THEN Thrown(f.exc, env, h, o)
      ELSE Res(NEXT, env, f.heap, o)

EvalFree(instr, env, h, o) ==
  LET val == getPtr(instr, env, 0)
      f == HeapFree(h, val.val.loc)
  IN  IF ~val.ok THEN Thrown(val.exc, env, h, o)
      ELSE IF ~f.ok THEN Thrown(f.exc, env, h, o)
      ELSE Res(NEXT, env, f.heap, o)

\* the value is fetched with the getter the target's element type selects
StoreValue(instr, env, type) ==
  CASE type = "int" -> getInt(instr, env, 1)
    [] type = "bool" -> getBool(instr, env, 1)
    [] type = "ptr" -> getPtr(instr, env, 1)

\* mutant: the value is fetched with get, whatever the target's element type
EvalStoreUnchecked(instr, env, h, o) ==
  LET target == getPtr(instr, env, 0)
      val == get(env, instr.args[2])
      w == HeapWrite(h, target.val.loc, val.val)
  IN  IF ~target.ok THEN Thrown(target.exc, env, h, o)
      ELSE IF ~val.ok THEN Thrown(val.exc, env, h, o)
      ELSE IF ~w.ok THEN Thrown(w.exc, env, h, o)
      ELSE Res(NEXT, env, w.heap, o)

EvalStore(instr, env, h, o) ==
  LET target == getPtr(instr, env, 0)
      val == StoreValue(instr, env, target.val.type)
      w == HeapWrite(h, target.val.loc, val.val)
  IN  IF ~target.ok THEN Thrown(target.exc, env, h, o)
      ELSE IF ~val.ok THEN Thrown(val.exc, env, h, o)
      ELSE IF ~w.ok THEN Thrown(w.exc, env, h, o)
      ELSE Res(NEXT, env, w.heap, o)

\* mutant: !val, which is also true of 0 and of false
IsFalsy(val) ==
  \/ TypeOf(val) \in {"undefined", "null"}
  \/ (TypeOf(val) = "bigint" /\ val.n = 0)
  \/ (TypeOf(val) = "boolean" /\ ~val.b)

\* val == undefined || val == null: true of an unwritten slot only, not of 0
\* nor of false
IsNullish(val) == TypeOf(val) \in {"undefined", "null"}

\* mutant: load binds whatever the slot holds
EvalLoadNoInitCheck(instr, env, h, o) ==
  LET ptr == getPtr(instr, env, 0)
      val == HeapRead(h, ptr.val.loc)
  IN  IF ~ptr.ok THEN Thrown(ptr.exc, env, h, o)
      ELSE IF ~val.ok THEN Thrown(val.exc, env, h, o)
      ELSE Bind(instr, env, h, o, val.val)

\* mutant: load swallows the heap's rejection of the read and goes on
EvalLoadSwallowsRejection(instr, env, h, o) ==
  LET ptr == getPtr(instr, env, 0)
      val == HeapRead(h, ptr.val.loc)
  IN  IF ~ptr.ok THEN Thrown(ptr.exc, env, h, o)
      ELSE IF ~val.ok THEN Res(NEXT, env, h, o)
      ELSE IF IsNullish(val.val)
        THEN Thrown(StringThrow("uninitialized-read"), env, h, o)
      ELSE Bind(instr, env, h, o, val.val)

EvalLoad(instr, env, h, o) ==
  LET ptr == getPtr(instr, env, 0)
      val == HeapRead(h, ptr.val.loc)
  IN  IF ~ptr.ok THEN Thrown(ptr.exc, env, h, o)
      ELSE IF ~val.ok THEN Thrown(val.exc, env, h, o)
      ELSE IF IsNullish(val.val)
        THEN Thrown(StringThrow("uninitialized-read"), env, h, o)
      ELSE Bind(instr, env, h, o, val.val)

\* mutant: the pointer ptradd makes is a pointer to int
EvalPtraddIntPointer(instr, env, h, o) ==
  LET ptr == getPtr(instr, env, 0)
      val == getInt(instr, env, 1)
  IN  IF ~ptr.ok THEN Thrown(ptr.exc, env, h, o)
      ELSE IF ~val.ok THEN Thrown(val.exc, env, h, o)
      ELSE Bind(instr, env, h, o, Pointer(KeyAdd(ptr.val.loc, val.val.n), "int"))

\* mutant: ptradd validates the new offset against the block at once
EvalPtraddEager(instr, env, h, o) ==
  LET ptr == getPtr(instr, env, 0)
      val == getInt(instr, env, 1)
  IN  IF ~ptr.ok THEN Thrown(ptr.exc, env, h, o)
      ELSE IF ~val.ok THEN Thrown(val.exc, env, h, o)
      ELSE IF ~HeapInBounds(h, KeyAdd(ptr.val.loc, val.val.n))
        THEN Thrown(StringThrow("invalid-access"), env, h, o)
      ELSE Bind(instr, env, h, o,
                Pointer(KeyAdd(ptr.val.loc, val.val.n), ptr.val.type))

EvalPtradd(instr, env, h, o) ==
  LET ptr == getPtr(instr, env, 0)
      val == getInt(instr, env, 1)
  IN  IF ~ptr.ok THEN Thrown(ptr.exc, env, h, o)
      ELSE IF ~val.ok THEN Thrown(val.exc, env, h, o)
      ELSE Bind(instr, env, h, o,
                Pointer(KeyAdd(ptr.val.loc, val.val.n), ptr.val.type))

(***************************************************************************)
(* evalInstr for every operation but call: the argument count first, then  *)
(* the operation.                                                          *)
(***************************************************************************)
ArityCheck(instr) ==
  IF instr.op = "const" THEN NoExc
  ELSE IF instr.op \notin KnownOps THEN BriliError("unknown-opcode")
  ELSE IF HasFixedCount(instr.op) THEN checkArgs(instr, argCounts(instr.op))
  ELSE NoExc

Dispatch(instr, env, h, o) ==
  CASE instr.op = "const" -> EvalConst(instr, env, h, o)
    [] instr.op = "id" -> EvalId(instr, env, h, o)
    [] instr.op \in {"add", "mul", "sub", "div", "le", "lt", "gt", "ge", "eq"} ->
         EvalIntBinary(instr, env, h, o)
    [] instr.op = "not" -> EvalNot(instr, env, h, o)
    [] instr.op \in {"and", "or"} -> EvalAndOr(instr, env, h, o)
    [] instr.op = "print" -> EvalPrint(instr, env, h, o)
    [] instr.op = "jmp" -> Res(JumpTo(instr.args[1]), env, h, o)
    [] instr.op = "br" -> EvalBr(instr, env, h, o)
    [] instr.op = "ret" -> EvalRet(instr, env, h, o)
    [] instr.op = "nop" -> Res(NEXT, env, h, o)
    [] instr.op = "alloc" -> EvalAlloc(instr, env, h, o)
    [] instr.op = "free" -> EvalFree(instr, env, h, o)
    [] instr.op = "store" -> EvalStore(instr, env, h, o)
    [] instr.op = "load" -> EvalLoad(instr, env, h, o)
    [] instr.op = "ptradd" -> EvalPtradd(instr, env, h, o)

evalInstr(instr, env, h, o) ==
  IF ArityCheck(instr) # NoExc
    THEN Thrown(ArityCheck(instr), env, h, o)
    ELSE Dispatch(instr, env, h, o)

(***************************************************************************)
(* The program.  Idents are the variable names in use; an Env maps each to *)
(* its value, or to Undefined when the Map holds no entry.                 *)
(***************************************************************************)
Idents == {"a", "b", "c", "d", "p", "q", "x", "u"}

EmptyEnv == [id \in Idents |-> Undefined]

\* the callees of the function table
Callees ==
  << Function("ident", <<Arg("a", "int")>>, "int",
              << VOp("print", NoDest, NoType, <<"a">>), EOp("ret", <<"a">>) >>),
     Function("proc", <<>>, NoType,
              << Lbl("entry"), EOp("nop", <<>>) >>),
     Function("mk", <<Arg("a", "int")>>, "ptr",
              << Alloc("p", "ptr<int>", <<"a">>), EOp("ret", <<"p">>) >>),
     Function("untyped", <<Arg("a", "int")>>, NoType,
              << EOp("ret", <<"a">>) >>),
     Function("liar", <<>>, "int",
              << EOp("ret", <<>>) >>),
     Function("asint", <<Arg("c", "bool")>>, "int",
              << EOp("ret", <<"c">>) >>),
     Function("pick", <<Arg("c", "bool")>>, "int",
              << EOp("br", <<"c", "yes", "no">>),
                 Lbl("yes"), Const("x", "int", NumLit(1)), EOp("ret", <<"x">>),
                 Lbl("no"), EOp("jmp", <<"out">>) >>),
     \* the label again is in the list twice
     Function("dup", <<>>, "int",
              << EOp("jmp", <<"again">>),
                 Lbl("again"), Const("x", "int", NumLit(1)), EOp("ret", <<"x">>),
                 Lbl("again"), Const("x", "int", NumLit(2)), EOp("ret", <<"x">>) >>),
     \* the label yes is in pick's list, not in this one
     Function("far", <<>>, NoType,
              << EOp("jmp", <<"yes">>) >>),
     \* the label jumped to is the last entry
     Function("tail", <<>>, NoType,
              << EOp("jmp", <<"end">>), EOp("nop", <<>>), Lbl("end") >>),
     Function("empty", <<>>, NoType, <<>>),
     \* a jump backwards
     Function("spin", <<Arg("c", "bool")>>, NoType,
              << Lbl("top"), Const("x", "int", NumLit(1)),
                 EOp("br", <<"c", "out", "top">>), Lbl("out") >>),
     \* reads a, which is no parameter
     Function("peek", <<>>, "int",
              << VOp("id", "x", "int", <<"a">>), EOp("ret", <<"x">>) >>),
     \* calls itself once; both activations bind x, the inner one also a
     Function("rec", <<Arg("c", "bool")>>, NoType,
              << EOp("br", <<"c", "deeper", "leaf">>),
                 Lbl("deeper"), Const("x", "int", NumLit(1)),
                 Const("d", "bool", BoolLit(FALSE)),
                 Call("rec", NoDest, NoType, <<"d">>),
                 VOp("print", NoDest, NoType, <<"x">>), EOp("ret", <<>>),
                 Lbl("leaf"), Const("x", "int", NumLit(2)),
                 Const("a", "int", NumLit(2)) >>),
     \* takes a pointer and loads through it
     Function("deref", <<Arg("p", "ptr")>>, "int",
              << VOp("load", "x", "int", <<"p">>), EOp("ret", <<"x">>) >>) >>

\* main's declared parameters and the strings given for them
MainDecls ==
  { <<>>, <<Arg("c", "bool")>>, <<Arg("a", "int"), Arg("b", "int")>>,
    <<Arg("p", "ptr")>> }
Argvs == { <<>>, <<"true">>, <<"yes">>, <<"2", "1">>, <<"2", "x">> }

\* the function table: main (its body is MainPool entries, see ExecInstr) and
\* the callees
Funcs(mainArgs) == <<Function("main", mainArgs, NoType, <<>>)>> \o Callees

findFunc(name, fs) ==
  LET matches == SelectSeq(fs, LAMBDA f : f.name = name)
  IN  IF Len(matches) = 0 THEN Err(BriliError("no-function"))
      ELSE IF Len(matches) > 1 THEN Err(BriliError("multiple-functions"))
      ELSE Ok(matches[1])

(***************************************************************************)
(* Binding main's parameters from the argument strings.                    *)
(***************************************************************************)
\* parseInt on the strings of Argvs: a number, or NaN
NaN == [nan |-> TRUE]
parseInt(str) ==
  CASE str = "1" -> [nan |-> FALSE, n |-> 1]
    [] str = "2" -> [nan |-> FALSE, n |-> 2]
    [] OTHER -> NaN

parseBool(str) ==
  IF str = "true" THEN Ok(BoolV(TRUE))
  ELSE IF str = "false" THEN Ok(BoolV(FALSE))
  ELSE Err(BriliError("bad-bool-argument"))

\* one parameter: int through BigInt(parseInt(s)), which throws a RangeError
\* on NaN; bool through parseBool; any other type binds nothing
ParseOne(type, str) ==
  CASE type = "int" ->
         IF parseInt(str).nan THEN Err(RangeError("nan-to-bigint"))
         ELSE Ok(IntV(parseInt(str).n))
    [] type = "bool" -> parseBool(str)
    [] OTHER -> Ok(Undefined)

RECURSIVE BindMainArgs(_, _, _, _)
BindMainArgs(expected, args, i, env) ==
  IF i > Len(args) THEN Ok(env)
  ELSE LET v == ParseOne(expected[i].type, args[i])
       IN  IF ~v.ok THEN v
           ELSE BindMainArgs(expected, args, i + 1,
                             [env EXCEPT ![expected[i].name] = v.val])

parseMainArguments(expected, args) ==
  IF Len(args) # Len(expected)
    THEN Err(BriliError("main-arity"))
    ELSE BindMainArgs(expected, args, 1, EmptyEnv)

(***************************************************************************)
(* The run.  frames is the stack of active evalFuncInEnv activations, main *)
(* at the bottom: the function, the index i of its loop, its Env, and the  *)
(* call instruction that started it.                                       *)
(***************************************************************************)
NoSite == [op |-> "none"]
\* the input of a run: main's declared parameters and process.argv from 2 on
Start(expected, args) == [op |-> "start", params |-> expected, argv |-> args]
Frame(func, i, env, site) == [func |-> func, i |-> i, env |-> env, site |-> site]

Top == frames[Len(frames)]

FuncOf(name) == findFunc(name, Callees).val

\* what happened last: the event, the entry of the instruction list it was
\* about and the function that ran it; ended says an activation ended in this
\* step, with the value val, started by the call instruction site
Event(ev, instr, func) ==
  [ev |-> ev, instr |-> instr, func |-> func,
   ended |-> FALSE, val |-> Null, site |-> NoSite]
EndEvent(ev, instr, func, val, site) ==
  [ev |-> ev, instr |-> instr, func |-> func,
   ended |-> TRUE, val |-> val, site |-> site]

St(st, e, fr, h, o) == [status |-> st, exc |-> e, frames |-> fr, heap |-> h, out |-> o]

\* main()'s catch: a BriliError is reported and the process exits with 2,
\* anything else is thrown again and ends the process as an uncaught exception
Raised(e, fr, h, o) ==
  St(IF e.cls = "BriliError" THEN "exit2" ELSE "uncaught", e, fr, h, o)

\* mutant: evalProg without the leak check
evalProgEndNoLeakCheck(fr, h, o) == St("done", NoExc, fr, h, o)

\* evalProg once main has returned: the leak check
evalProgEnd(fr, h, o) ==
  IF ~HeapIsEmpty(h)
    THEN Raised(StringThrow("leak"), fr, h, o)
    ELSE St("done", NoExc, fr, h, o)

\* mutant: evalCall without the comparison of the callee's declared return
\* type with the call site's type
evalCallReturnNoDeclCheck(site, func, retVal, env) ==
  IF site.dest = NoDest /\ site.type = NoType
    THEN IF retVal # Null THEN Err(BriliError("unexpected-return-value"))
         ELSE IF func.type # NoType THEN Err(BriliError("missing-return-value"))
         ELSE Ok(env)
  ELSE IF site.type = NoType THEN Err(BriliError("call-without-type"))
  ELSE IF site.dest = NoDest THEN Err(BriliError("call-without-dest"))
  ELSE IF retVal = Null THEN Err(BriliError("missing-return-value"))
  ELSE IF brilTypeToDynamicType(site.type) # TypeOf(retVal)
    THEN Err(BriliError("return-value-type"))
  ELSE Ok([env EXCEPT ![site.dest] = retVal])

\* evalCall once the callee has returned retVal: Ok(the caller's Env) or Err
evalCallReturn(site, func, retVal, env) ==
  IF site.dest = NoDest /\ site.type = NoType
    THEN IF retVal # Null THEN Err(BriliError("unexpected-return-value"))
         ELSE IF func.type # NoType THEN Err(BriliError("missing-return-value"))
         ELSE Ok(env)
  ELSE IF site.type = NoType THEN Err(BriliError("call-without-type"))
  ELSE IF site.dest = NoDest THEN Err(BriliError("call-without-dest"))
  ELSE IF retVal = Null THEN Err(BriliError("missing-return-value"))
  ELSE IF brilTypeToDynamicType(site.type) # TypeOf(retVal)
    THEN Err(BriliError("return-value-type"))
  ELSE IF func.type # site.type THEN Err(BriliError("return-declared-type"))
  ELSE Ok([env EXCEPT ![site.dest] = retVal])

\* the top activation ends with retVal: back in evalCall of the caller, or in
\* evalProg when it was main
Returned(retVal, fr, h, o) ==
  IF Len(fr) = 1 THEN evalProgEnd(fr, h, o)
  ELSE LET callee == fr[Len(fr)]
           caller == fr[Len(fr) - 1]
           r == evalCallReturn(callee.site, FuncOf(callee.func), retVal, caller.env)
           below == SubSeq(fr, 1, Len(fr) - 2)
       IN  IF ~r.ok THEN Raised(r.exc, fr, h, o)
           ELSE St("running", NoExc,
                   Append(below, [caller EXCEPT !.env = r.val, !.i = caller.i + 1]),
                   h, o)

(***************************************************************************)
(* evalCall up to the callee's start: the callee, the arity, then each     *)
(* argument in order, looked up in the caller's Env and checked against    *)
(* the parameter's type.                                                   *)
(***************************************************************************)
\* mutant: the arguments are bound without the check of their types
RECURSIVE BindCallArgsUntyped(_, _, _, _, _)
BindCallArgsUntyped(func, instr, env, i, newEnv) ==
  IF i > Len(func.args) THEN Ok(newEnv)
  ELSE LET value == get(env, instr.args[i])
       IN  IF ~value.ok THEN value
           ELSE BindCallArgsUntyped(func, instr, env, i + 1,
                                    [newEnv EXCEPT ![func.args[i].name] = value.val])

RECURSIVE BindCallArgs(_, _, _, _, _)
BindCallArgs(func, instr, env, i, newEnv) ==
  IF i > Len(func.args) THEN Ok(newEnv)
  ELSE LET value == get(env, instr.args[i])
       IN  IF ~value.ok THEN value
           ELSE IF brilTypeToDynamicType(func.args[i].type) # TypeOf(value.val)
             THEN Err(BriliError("argument-type"))
           ELSE BindCallArgs(func, instr, env, i + 1,
                             [newEnv EXCEPT ![func.args[i].name] = value.val])

\* mutant: the callee's Env starts as a copy of the caller's
evalCallEnterInheritsEnv(instr, env, fs) ==
  LET func == findFunc(instr.name, fs)
  IN  IF ~func.ok THEN func
      ELSE IF Len(func.val.args) # Len(instr.args)
        THEN Err(BriliError("call-arity"))
      ELSE BindCallArgs(func.val, instr, env, 1, env)

evalCallEnter(instr, env, fs) ==
  LET func == findFunc(instr.name, fs)
  IN  IF ~func.ok THEN func
      ELSE IF Len(func.val.args) # Len(instr.args)
        THEN Err(BriliError("call-arity"))
      ELSE BindCallArgs(func.val, instr, env, 1, EmptyEnv)

(***************************************************************************)
(* evalFuncInEnv: one turn of its loop.                                    *)
(***************************************************************************)
\* main's instruction list holds operations only
InstrsOf(name) == IF name = "main" THEN <<>> ELSE FuncOf(name).instrs

\* mutant: the search keeps the last entry tagged with the label
FindLabelLast(instrs, l) ==
  LET hits == {k \in 1..Len(instrs) :
                 "label" \in DOMAIN instrs[k] /\ instrs[k].label = l}
  IN  IF hits = {} THEN Len(instrs)
      ELSE (CHOOSE k \in hits : \A m \in hits : k >= m) - 1

\* the index (from 0) of the first entry tagged with the label, or the length
\* of the list when there is none
FindLabel(instrs, l) ==
  LET hits == {k \in 1..Len(instrs) :
                 "label" \in DOMAIN instrs[k] /\ instrs[k].label = l}
  IN  IF hits = {} THEN Len(instrs)
      ELSE (CHOOSE k \in hits : \A m \in hits : k <= m) - 1

WithTop(fr, f) == [fr EXCEPT ![Len(fr)] = f]

\* mutant: after an operation that falls through the loop stays at its index
AfterInstrStays(r, fr) ==
  LET top == fr[Len(fr)]
      now == WithTop(fr, [top EXCEPT !.env = r.env])
      instrs == InstrsOf(top.func)
  IN  IF "throw" \in DOMAIN r.action
        THEN Raised(r.action.throw, now, r.heap, r.out)
      ELSE IF "label" \in DOMAIN r.action
        THEN IF FindLabel(instrs, r.action.label) = Len(instrs)
               THEN Raised(BriliError("label-not-found"), now, r.heap, r.out)
               ELSE St("running", NoExc,
                       WithTop(fr, [top EXCEPT
                                      !.env = r.env,
                                      !.i = FindLabel(instrs, r.action.label) + 1]),
                       r.heap, r.out)
      ELSE IF "end" \in DOMAIN r.action
        THEN Returned(r.action.end, now, r.heap, r.out)
      ELSE St("running", NoExc, now, r.heap, r.out)

\* what the loop does with the Action r of the instruction it ran
AfterInstr(r, fr) ==
  LET top == fr[Len(fr)]
      now == WithTop(fr, [top EXCEPT !.env = r.env])
      instrs == InstrsOf(top.func)
  IN  IF "throw" \in DOMAIN r.action
        THEN Raised(r.action.throw, now, r.heap, r.out)
      ELSE IF "label" \in DOMAIN r.action
        THEN IF FindLabel(instrs, r.action.label) = Len(instrs)
               THEN Raised(BriliError("label-not-found"), now, r.heap, r.out)
               ELSE St("running", NoExc,
                       WithTop(fr, [top EXCEPT
                                      !.env = r.env,
                                      !.i = FindLabel(instrs, r.action.label) + 1]),
                       r.heap, r.out)
      ELSE IF "end" \in DOMAIN r.action
        THEN Returned(r.action.end, now, r.heap, r.out)
      ELSE St("running", NoExc,
              WithTop(fr, [top EXCEPT !.env = r.env, !.i = top.i + 1]),
              r.heap, r.out)

(***************************************************************************)
(* main's body: any list of at most MaxBody operations of MainPool.  The   *)
(* loop reads the entry at index i only when it gets there, so the entry   *)
(* is drawn at that moment.  pool names the family of programs the run's   *)
(* program is taken from: programs about memory, or about values and calls.*)
(***************************************************************************)
MemPool ==
  { Alloc("p", "ptr<int>", <<"a">>),
    Alloc("p", "ptr<bool>", <<"a">>),
    Alloc("q", "ptr<int>", <<"a">>),
    Alloc("p", "ptr<int>", <<"b">>),
    EOp("free", <<"p">>),
    EOp("free", <<"q">>),
    EOp("free", <<"a">>),
    EOp("store", <<"p", "a">>),
    EOp("store", <<"p", "b">>),
    EOp("store", <<"p", "c">>),
    EOp("store", <<"q", "b">>),
    VOp("load", "x", "int", <<"p">>),
    VOp("load", "x", "int", <<"q">>),
    VOp("ptradd", "q", "ptr", <<"p", "a">>),
    VOp("ptradd", "q", "ptr", <<"p", "b">>),
    VOp("id", "q", "ptr", <<"p">>),
    Const("a", "int", NumLit(1)),
    Const("b", "int", NumLit(0)),
    Const("b", "int", NumLit(-1)),
    Const("c", "bool", BoolLit(FALSE)),
    Call("mk", "q", "ptr", <<"a">>),
    Call("proc", NoDest, NoType, <<>>),
    EOp("ret", <<>>) }

ValuePool ==
  { Const("a", "int", NumLit(1)),
    Const("a", "int", NumLit(2)),
    Const("b", "int", NumLit(0)),
    Const("b", "int", NumLit(-1)),
    Const("c", "bool", BoolLit(TRUE)),
    Const("c", "bool", BoolLit(FALSE)),
    VOp("div", "x", "int", <<"a", "b">>),
    VOp("and", "x", "bool", <<"c", "c">>),
    VOp("and", "x", "bool", <<"c", "u">>),
    VOp("and", "x", "bool", <<"c", "a">>),
    VOp("or", "x", "bool", <<"c", "u">>),
    VOp("or", "x", "bool", <<"c", "a">>),
    VOp("print", NoDest, NoType, <<"x">>),
    EOp("ret", <<>>),
    EOp("jmp", <<"entry">>) }

CallPool ==
  { Call("ident", "x", "int", <<"a">>),
    Call("ident", "x", "int", <<"c">>),
    Call("ident", "x", "int", <<>>),
    Call("ident", "x", "bool", <<"a">>),
    Call("ident", NoDest, NoType, <<"a">>),
    Call("ident", "x", NoType, <<"a">>),
    Call("ident", NoDest, "int", <<"a">>),
    Call("proc", NoDest, NoType, <<>>),
    Call("proc", "x", "int", <<>>),
    Call("mk", "p", "ptr", <<"a">>),
    Call("mk", "p", "ptr", <<"c">>),
    Call("mk", "p", "ptr", <<"b">>),
    Call("mk", "p", "ptr", <<"a", "b">>),
    Call("untyped", "x", "int", <<"a">>),
    Call("untyped", NoDest, NoType, <<"a">>),
    Call("liar", "x", "int", <<>>),
    Call("liar", NoDest, NoType, <<>>),
    Call("asint", "x", "int", <<"c">>),
    Call("asint", "x", "bool", <<"c">>),
    Call("pick", "x", "int", <<"c">>),
    Call("nosuch", NoDest, NoType, <<>>) }

\* jumps, activations and argument counts
ControlPool ==
  { Const("a", "int", NumLit(1)),
    Const("c", "bool", BoolLit(TRUE)),
    Const("c", "bool", BoolLit(FALSE)),
    Const("x", "int", NumLit(0)),
    VOp("add", "x", "int", <<"a", "a">>),
    VOp("print", NoDest, NoType, <<"x">>),
    VOp("print", NoDest, NoType, <<>>),
    VOp("print", NoDest, NoType, <<"a", "c">>),
    Call("pick", "x", "int", <<"c">>),
    Call("dup", "x", "int", <<>>),
    Call("far", NoDest, NoType, <<>>),
    Call("tail", NoDest, NoType, <<>>),
    Call("empty", NoDest, NoType, <<>>),
    Call("spin", NoDest, NoType, <<"c">>),
    Call("peek", "x", "int", <<>>),
    Call("rec", NoDest, NoType, <<"c">>),
    EOp("br", <<"u", "yes", "no">>),
    EOp("br", <<"a", "yes", "no">>),
    EOp("br", <<"c", "yes", "no">>),
    EOp("jmp", <<"entry">>),
    EOp("ret", <<"a">>),
    \* argument counts that do not fit the operation
    VOp("add", "x", "int", <<"u">>),
    VOp("add", "x", "int", <<"a", "a", "u">>),
    VOp("id", "x", "int", <<"a", "a">>),
    VOp("not", "x", "bool", <<"c", "c">>),
    VOp("load", "x", "int", <<"a", "a">>),
    EOp("nop", <<"a">>),
    EOp("jmp", <<>>),
    EOp("br", <<"c", "yes">>),
    EOp("free", <<"a", "a">>),
    EOp("store", <<"u">>),
    EOp("ret", <<"a", "a">>) }

\* blocks of pointers
PtrPool ==
  { Const("a", "int", NumLit(1)),
    Const("b", "int", NumLit(0)),
    Alloc("p", "ptr<ptr<int>>", <<"a">>),
    Alloc("q", "ptr<int>", <<"a">>),
    Alloc("q", "ptr<bool>", <<"b">>),
    VOp("alloc", "q", "int", <<"a">>),
    EOp("store", <<"p", "q">>),
    EOp("store", <<"p", "a">>),
    EOp("store", <<"q", "p">>),
    EOp("store", <<"q", "a">>),
    EOp("store", <<"a", "a">>),
    EOp("store", <<"u", "a">>),
    EOp("store", <<"q", "u">>),
    VOp("load", "x", "ptr", <<"p">>),
    VOp("load", "x", "int", <<"q">>),
    EOp("free", <<"p">>),
    EOp("free", <<"q">>),
    EOp("free", <<"x">>),
    Call("deref", "x", "int", <<"q">>),
    Call("deref", "x", "ptr", <<"p">>) }

\* calls of the callees without jumps and calls, and of one that jumps
StraightPool ==
  { Const("a", "int", NumLit(1)),
    Const("c", "bool", BoolLit(FALSE)),
    Call("ident", "x", "int", <<"a">>),
    Call("proc", NoDest, NoType, <<>>),
    Call("mk", "q", "ptr", <<"a">>),
    Call("empty", NoDest, NoType, <<>>),
    Call("peek", "x", "int", <<>>),
    Call("deref", "x", "int", <<"q">>),
    Call("spin", NoDest, NoType, <<"c">>),
    EOp("free", <<"q">>) }

Pools == {"memory", "calls", "control", "pointers"}

MainPool ==
  CASE pool = "memory" -> MemPool
    [] pool = "calls" -> ValuePool \cup CallPool
    [] pool = "control" -> ControlPool
    [] pool = "pointers" -> PtrPool
    [] pool = "straight" -> StraightPool

\* the entries the top activation's loop may find at its index
CurrentLines ==
  IF Top.func = "main"
    THEN IF Top.i < MaxBody THEN MainPool ELSE {}
    ELSE IF Top.i < Len(InstrsOf(Top.func))
           THEN {InstrsOf(Top.func)[Top.i + 1]}
           ELSE {}

\* the bounds of the model: values, blocks handed out, lines printed
ValueInBounds(v) ==
  CASE TypeOf(v) = "bigint" -> v.n \in IntRange
    [] TypeOf(v) = "object" -> v.loc.offset \in IntRange
    [] OTHER -> TRUE

InBounds(s) ==
  /\ \A k \in 1..Len(s.frames) : \A id \in Idents : ValueInBounds(s.frames[k].env[id])
  /\ s.heap.count <= MaxAllocs
  /\ Len(s.out) <= MaxOut
  /\ Len(s.frames) <= MaxDepth

Apply(s) ==
  /\ InBounds(s)
  /\ pool' = pool
  /\ status' = s.status
  /\ exc' = s.exc
  /\ frames' = s.frames
  /\ heap' = s.heap
  /\ out' = s.out

(***************************************************************************)
(* shadow records, for every slot, the value of the last store that        *)
(* succeeded on it since its block was allocated; the entries of a block   *)
(* go when the block is freed.  It is bookkeeping about the run, not state *)
(* of the interpreter.                                                     *)
(***************************************************************************)
ShadowAfter(line, env, r, sh) ==
  IF "next" \notin DOMAIN r.action THEN sh
  ELSE IF line.op = "store"
    THEN LET key == env[line.args[1]].loc
         IN  [k \in DOMAIN sh \cup {key} |->
                IF k = key THEN env[line.args[2]] ELSE sh[k]]
  ELSE IF line.op = "free"
    THEN [k \in {j \in DOMAIN sh : j.base # env[line.args[1]].loc.base} |-> sh[k]]
  ELSE sh

(***************************************************************************)
(* declared records, for every block handed out, the type its alloc        *)
(* instruction was written with.  It too is bookkeeping about the run.     *)
(***************************************************************************)
DeclaredAfter(line, r, dc) ==
  IF line.op = "alloc" /\ "next" \in DOMAIN r.action
    THEN LET b == r.env[line.dest].loc.base
         IN  [k \in DOMAIN dc \cup {b} |-> IF k = b THEN line.type ELSE dc[k]]
    ELSE dc

(***************************************************************************)
(* The actions.                                                            *)
(***************************************************************************)
Init ==
  /\ pool \in Pools
  /\ status = "init"
  /\ exc = NoExc
  /\ frames = <<>>
  /\ heap = EmptyHeap
  /\ out = <<>>
  /\ last = Event("none", NoSite, "none")
  /\ shadow = <<>>
  /\ declared = <<>>

\* evalProg up to main's start: findFunc, a new Heap, parseMainArguments
EvalProgStart ==
  /\ status = "init"
  /\ \E expected \in MainDecls, args \in Argvs :
       LET main == findFunc("main", Funcs(expected))
           newEnv == parseMainArguments(main.val.args, args)
       IN  /\ Apply(IF ~main.ok THEN Raised(main.exc, <<>>, EmptyHeap, <<>>)
                    ELSE IF ~newEnv.ok THEN Raised(newEnv.exc, <<>>, EmptyHeap, <<>>)
                    ELSE St("running", NoExc,
                            <<Frame("main", 0, newEnv.val, NoSite)>>, EmptyHeap, <<>>))
           /\ last' = Event("start", Start(expected, args), "main")
           /\ UNCHANGED <<shadow, declared>>

\* one operation other than call
ExecInstr ==
  /\ status = "running"
  /\ \E line \in CurrentLines :
       /\ IsOp(line)
       /\ line.op # "call"
       /\ LET r == evalInstr(line, Top.env, heap, out)
          IN  /\ Apply(AfterInstr(r, frames))
              /\ last' = IF "end" \in DOMAIN r.action
                           THEN EndEvent("instr", line, Top.func, r.action.end, Top.site)
                           ELSE Event("instr", line, Top.func)
              /\ shadow' = ShadowAfter(line, Top.env, r, shadow)
              /\ declared' = DeclaredAfter(line, r, declared)

\* a call: evalCall up to the start of the callee
ExecCall ==
  /\ status = "running"
  /\ \E line \in CurrentLines :
       /\ IsOp(line)
       /\ line.op = "call"
       /\ LET newEnv == evalCallEnter(line, Top.env, Funcs(<<>>))
          IN  /\ Apply(IF ~newEnv.ok THEN Raised(newEnv.exc, frames, heap, out)
                       ELSE St("running", NoExc,
                               Append(frames, Frame(line.name, 0, newEnv.val, line)),
                               heap, out))
              /\ last' = Event("call", line, Top.func)
              /\ UNCHANGED <<shadow, declared>>

\* an entry that is a label: the loop goes on
SkipLabel ==
  /\ status = "running"
  /\ \E line \in CurrentLines :
       /\ ~IsOp(line)
       /\ Apply(St("running", NoExc, WithTop(frames, [Top EXCEPT !.i = Top.i + 1]),
                  heap, out))
       /\ last' = Event("label", line, Top.func)
       /\ UNCHANGED <<shadow, declared>>

\* mutant: an activation that runs off the end of its list without a ret is
\* an error
FallOffMissingRet ==
  /\ status = "running"
  /\ IF Top.func = "main" THEN TRUE ELSE Top.i >= Len(InstrsOf(Top.func))
  /\ Apply(Raised(BriliError("missing-ret"), frames, heap, out))
  /\ last' = EndEvent("end", NoSite, Top.func, Null, Top.site)
  /\ UNCHANGED <<shadow, declared>>

\* the index has reached the length of the list: return null.  main's list
\* may end at any index up to MaxBody
FallOff ==
  /\ status = "running"
  /\ IF Top.func = "main" THEN TRUE ELSE Top.i >= Len(InstrsOf(Top.func))
  /\ Apply(Returned(Null, frames, heap, out))
  /\ last' = EndEvent("end", NoSite, Top.func, Null, Top.site)
  /\ UNCHANGED <<shadow, declared>>

Next ==
  \/ EvalProgStart
  \/ ExecInstr
  \/ ExecCall
  \/ SkipLabel
  \/ FallOff

Spec == Init /\ [][Next]_vars

(***************************************************************************)
(* Vocabulary of the properties.                                           *)
(***************************************************************************)
Failed(st) == st \in {"exit2", "uncaught"}

\* the identifiers the heap has handed out whose block is no longer live
FreedBlocks(h) == {b \in 0..(h.count - 1) : ~HeapLive(h, b)}

\* the step taken ran this operation in the top activation
Ran(ops) == status = "running" /\ last'.ev = "instr" /\ last'.instr.op \in ops

\* the value of the operation's k-th argument before the step
ArgBefore(k) == Top.env[last'.instr.args[k]]

PtrArgBefore(k) ==
  /\ Len(last'.instr.args) >= k
  /\ TypeOf(ArgBefore(k)) = "object"

\* the Env of the activation at depth d after the step
EnvAfter(d) == frames'[d].env

\* C1: once a block is freed, every later load, store or free through any
\* pointer to it (whatever its offset, however it was copied or derived, and
\* whatever was allocated since) raises an error and leaves the heap, every
\* Env and the output as they were.
UseAfterFreeRejected ==
  [][ (Ran({"load", "store", "free"}) /\ PtrArgBefore(1)
        /\ ArgBefore(1).loc.base \in FreedBlocks(heap))
      => (Failed(status') /\ heap' = heap /\ frames' = frames /\ out' = out) ]_vars

\* a load through a pointer derived with ptradd from a freed block was
\* rejected while a block allocated after the free is live
UseAfterFreeWitness ==
  /\ Failed(status)
  /\ last.ev = "instr" /\ last.instr.op = "load"
  /\ TypeOf(Top.env[last.instr.args[1]]) = "object"
  /\ Top.env[last.instr.args[1]].loc.base \in FreedBlocks(heap)
  /\ Top.env[last.instr.args[1]].loc.offset # 0
  /\ \E b \in DOMAIN heap.storage : b > Top.env[last.instr.args[1]].loc.base

\* main's activation has ended (by ret or at the end of its list)
MainReturned == last.ended /\ last.func = "main"

\* C2: when main returns and no instruction has raised an error, the run
\* ends with the leak error exactly when some block is still live, and ends
\* normally otherwise; the leak error and the normal end arise in no other way.
LeakIffBlockLive ==
  /\ MainReturned =>
       IF HeapIsEmpty(heap)
         THEN status = "done" /\ exc = NoExc
         ELSE Failed(status) /\ exc.msg = "leak"
  /\ (status = "done" \/ exc.msg = "leak") => MainReturned

\* a run in which blocks were allocated, every one of them was freed, and
\* main returned: it completed normally
LeakWitness ==
  /\ status = "done"
  /\ heap.count >= 1
  /\ HeapIsEmpty(heap)

\* the step taken is a call instruction's
CallBefore == status = "running" /\ last'.ev = "call"

\* the call names a callee and its arguments do not fit the parameters
BadCallArgs(instr, env) ==
  LET func == findFunc(instr.name, Funcs(<<>>))
  IN  /\ func.ok
      /\ \/ Len(func.val.args) # Len(instr.args)
         \/ \E i \in 1..Len(func.val.args) :
              /\ i <= Len(instr.args)
              /\ TypeOf(env[instr.args[i]]) # brilTypeToDynamicType(func.val.args[i].type)

\* C3: a call whose argument count differs from the callee's parameter
\* count, or one of whose arguments has a runtime type other than its
\* parameter's declared type, raises an error before the callee starts: no
\* activation is added, and the Envs, the heap and the output are unchanged.
ArgumentChecksFirst ==
  [][ (CallBefore /\ BadCallArgs(last'.instr, Top.env))
      => (Failed(status') /\ frames' = frames /\ heap' = heap /\ out' = out) ]_vars

\* a call of mk, whose body allocates, with a bool for its int parameter was
\* rejected: nothing was allocated
ArgumentChecksWitness ==
  /\ status = "exit2"
  /\ last.ev = "call" /\ last.instr.name = "mk"
  /\ Len(last.instr.args) = 1
  /\ TypeOf(Top.env[last.instr.args[1]]) = "boolean"
  /\ Top.func = "main"
  /\ heap.count = 0

\* C4: and / or resolve and type-check both arguments whatever the value of
\* the first: with an argument that is unbound or not a bool the instruction
\* raises a reported error, also when the first operand decides the result.
AndOrChecksBothArguments ==
  [][ (Ran({"and", "or"}) /\ Len(last'.instr.args) = 2
        /\ (TypeOf(ArgBefore(1)) # "boolean" \/ TypeOf(ArgBefore(2)) # "boolean"))
      => status' = "exit2" ]_vars

\* the errors the claim lists
ProgramErrors ==
  {"undefined-variable", "no-function", "label-not-found", "arity", "call-arity",
   "type-mismatch", "not-a-pointer", "argument-type", "alloc-size",
   "invalid-free", "invalid-access", "uninitialized-read", "divide-by-zero",
   "leak"}

\* C5: every error a program causes ends the run on the reported path (a
\* BriliError: category and message, exit status 2), never as an uncaught
\* exception.
ProgramErrorsReported ==
  exc.msg \in ProgramErrors => (status = "exit2" /\ exc.cls = "BriliError")

\* the step taken ends a callee's activation
CalleeEnds == status = "running" /\ last'.ended /\ last'.site # NoSite

CaseVoid(site, func, val) ==
  /\ site.dest = NoDest /\ site.type = NoType
  /\ val = Null
  /\ func.type = NoType

CaseValue(site, func, val) ==
  /\ site.dest # NoDest /\ site.type # NoType
  /\ val # Null
  /\ TypeOf(val) = brilTypeToDynamicType(site.type)
  /\ func.type = site.type

\* C6: when a callee returns, the call completes normally exactly in case
\* (a), no destination and no type at the call site, no value returned and no
\* return type declared, or (b), destination and type at the call site, a
\* value returned whose runtime type is the call site's type, and the callee's
\* declared return type equal to the call site's type.  In case (b) the
\* caller's Env gains exactly destination |-> value, in case (a) it is
\* unchanged, and in every other case an error is raised and the caller's Env
\* is unchanged.
ReturnReconciled ==
  [][ CalleeEnds =>
        LET site == last'.site
            func == FuncOf(Top.func)
            val == last'.val
            d == Len(frames) - 1
            callerEnv == frames[d].env
        IN  IF CaseVoid(site, func, val)
              THEN status' = "running" /\ Len(frames') = d /\ EnvAfter(d) = callerEnv
            ELSE IF CaseValue(site, func, val)
              THEN /\ status' = "running" /\ Len(frames') = d
                   /\ EnvAfter(d) = [callerEnv EXCEPT ![site.dest] = val]
            ELSE Failed(status') /\ EnvAfter(d) = callerEnv ]_vars

\* a call with destination and type has just completed: the destination holds
\* the value the callee returned
ReturnReconciledWitness ==
  /\ status = "running"
  /\ last.ended /\ last.site # NoSite
  /\ last.site.dest # NoDest
  /\ last.val # Null
  /\ Top.env[last.site.dest] = last.val

\* C7: a load through a pointer to a slot yields exactly the value of the
\* last store to that slot (0 and false included), whatever was stored to
\* other slots and other blocks since, as long as the block was not freed.
StoreLoadRoundTrip ==
  [][ (Ran({"load"}) /\ PtrArgBefore(1) /\ ArgBefore(1).loc \in DOMAIN shadow)
      => /\ status' = "running"
         /\ EnvAfter(Len(frames))[last'.instr.dest] = shadow[ArgBefore(1).loc] ]_vars

\* a load at a nonzero offset has just yielded a stored 0 or false
StoreLoadWitness ==
  /\ status = "running"
  /\ last.ev = "instr" /\ last.instr.op = "load"
  /\ Top.env[last.instr.args[1]].loc.offset # 0
  /\ Top.env[last.instr.dest] \in {IntV(0), BoolV(FALSE)}

\* the key points outside its live block
OutsideBlock(h, key) ==
  /\ HeapLive(h, key.base)
  /\ (key.offset < 0 \/ key.offset >= Len(h.storage[key.base]))

\* C8: ptradd on a pointer and an integer never raises an error, whatever
\* the integer, and binds its destination to a pointer to the same block,
\* with the offset shifted by the integer and the same element type; a load
\* or store through a pointer whose offset lies outside its live block raises
\* an error and leaves the heap unchanged.
PtraddDefersValidation ==
  [][ /\ (Ran({"ptradd"}) /\ PtrArgBefore(1) /\ Len(last'.instr.args) = 2
           /\ TypeOf(ArgBefore(2)) = "bigint")
         => /\ status' = "running"
            /\ EnvAfter(Len(frames))[last'.instr.dest] =
                 Pointer(Key(ArgBefore(1).loc.base,
                             ArgBefore(1).loc.offset + ArgBefore(2).n),
                         ArgBefore(1).type)
      /\ (Ran({"load", "store"}) /\ PtrArgBefore(1)
            /\ OutsideBlock(heap, ArgBefore(1).loc))
         => (Failed(status') /\ heap' = heap) ]_vars

\* a load through a pointer moved before the start of its live block was
\* rejected
PtraddWitness ==
  /\ Failed(status)
  /\ last.ev = "instr" /\ last.instr.op = "load"
  /\ TypeOf(Top.env[last.instr.args[1]]) = "object"
  /\ OutsideBlock(heap, Top.env[last.instr.args[1]].loc)
  /\ Top.env[last.instr.args[1]].loc.offset < 0

\* C9: free through a pointer with a nonzero offset, or to a block that is
\* not live, raises an error and leaves the heap unchanged; free through the
\* offset-0 pointer of a live block removes that block and no other, and
\* changes no other block's contents.
OnlyLiveBaseFreed ==
  [][ (Ran({"free"}) /\ PtrArgBefore(1)) =>
        LET key == ArgBefore(1).loc
        IN  IF key.offset # 0 \/ ~HeapLive(heap, key.base)
              THEN Failed(status') /\ heap' = heap
              ELSE /\ status' = "running"
                   /\ DOMAIN heap'.storage = DOMAIN heap.storage \ {key.base}
                   /\ \A b \in DOMAIN heap'.storage :
                        heap'.storage[b] = heap.storage[b] ]_vars

\* a free through an interior pointer of a live block was rejected, and the
\* block is still live with its contents
OnlyLiveBaseFreedWitness ==
  /\ Failed(status)
  /\ last.ev = "instr" /\ last.instr.op = "free"
  /\ TypeOf(Top.env[last.instr.args[1]]) = "object"
  /\ Top.env[last.instr.args[1]].loc.offset # 0
  /\ HeapInBounds(heap, Top.env[last.instr.args[1]].loc)
  /\ heap.storage[Top.env[last.instr.args[1]].loc.base][1] # Undefined

\* the MemoryError class of the taxonomy
MemoryErrors ==
  {"alloc-size", "invalid-free", "invalid-access", "uninitialized-read",
   "divide-by-zero"}

\* no alloc has been executed so far
NoAllocRun == heap.count = 0 /\ ~(last.ev = "instr" /\ last.instr.op = "alloc")

\* C10 as stated: a run that has executed no alloc never raises an error of
\* the MemoryError class, divide-by-zero included.
NoAllocNoMemoryError == NoAllocRun => exc.msg \notin MemoryErrors

\* C10 as amended: a run that has executed no alloc never raises an
\* allocation-size, invalid-free, invalid-access or uninitialized-read error
\* (it can still raise divide-by-zero).
NoAllocNoHeapError ==
  NoAllocRun => exc.msg \notin (MemoryErrors \ {"divide-by-zero"})

\* a run without alloc executed a free, which was rejected as a type error,
\* not as a memory error
NoAllocWitness ==
  /\ NoAllocRun
  /\ last.ev = "instr" /\ last.instr.op = "free"
  /\ exc.msg = "not-a-pointer"

\* the least element of a set of numbers
MinOf(S) == CHOOSE k \in S : \A m \in S : k <= m

\* the positions (from 1) of the entries of the function's list tagged l
LabelEntries(func, l) ==
  {k \in 1..Len(InstrsOf(func)) : InstrsOf(func)[k] = Lbl(l)}

\* the step taken ran a jmp, or a br whose condition is a bool
JumpBefore ==
  \/ Ran({"jmp"}) /\ Len(last'.instr.args) = 1
  \/ Ran({"br"}) /\ Len(last'.instr.args) = 3 /\ TypeOf(ArgBefore(1)) = "boolean"

\* the label that jump names: jmp's, br's second argument when the condition
\* is true, its third when it is false
JumpTargetBefore ==
  IF last'.instr.op = "jmp" THEN last'.instr.args[1]
  ELSE IF ArgBefore(1).b THEN last'.instr.args[2]
  ELSE last'.instr.args[3]

\* C11: after jmp L, or br c L1 L2 (L1 when c is true, L2 when c is false),
\* the activation goes on at the entry following the first entry of its own
\* function's list tagged with the label; when that list has no such entry
\* the undefined-label error is raised and nothing else changes.  A br whose
\* condition is unbound or not a bool raises an error and the activation's
\* index stays where it was.
JumpResolution ==
  [][ /\ JumpBefore =>
           LET entries == LabelEntries(Top.func, JumpTargetBefore)
           IN  IF entries = {}
                 THEN /\ status' = "exit2" /\ exc'.msg = "label-not-found"
                      /\ frames' = frames /\ heap' = heap /\ out' = out
                 ELSE /\ status' = "running"
                      /\ frames' = WithTop(frames, [Top EXCEPT !.i = MinOf(entries)])
                      /\ heap' = heap /\ out' = out
      /\ (Ran({"br"}) /\ Len(last'.instr.args) = 3
            /\ TypeOf(ArgBefore(1)) # "boolean")
         => (Failed(status') /\ frames' = frames) ]_vars

\* a jmp to a label that tags two entries has just gone to the first one
JumpResolutionWitness ==
  /\ status = "running"
  /\ last.ev = "instr" /\ last.instr.op = "jmp"
  /\ Cardinality(LabelEntries(Top.func, last.instr.args[1])) = 2
  /\ Top.i = MinOf(LabelEntries(Top.func, last.instr.args[1]))

\* a jmp to a label that another function's list has, and the jumping
\* function's list has not, was rejected
JumpOtherFunctionRejected ==
  /\ status = "exit2" /\ exc.msg = "label-not-found"
  /\ last.ev = "instr" /\ last.instr.op = "jmp"
  /\ LabelEntries(Top.func, last.instr.args[1]) = {}
  /\ \E k \in 1..Len(Callees) : LabelEntries(Callees[k].name, last.instr.args[1]) # {}

\* the step taken ran a div on two integers
DivBefore ==
  /\ Ran({"div"}) /\ Len(last'.instr.args) = 2
  /\ TypeOf(ArgBefore(1)) = "bigint" /\ TypeOf(ArgBefore(2)) = "bigint"

\* div on a >= 0 and b > 0 binds its destination to floor(a / b)
DivQuotient ==
  (ArgBefore(1).n >= 0 /\ ArgBefore(2).n > 0)
    => /\ status' = "running"
       /\ EnvAfter(Len(frames))[last'.instr.dest] =
            IntV(ArgBefore(1).n \div ArgBefore(2).n)

\* C12: div with divisor 0 raises an error that is reported as an interpreter
\* error (the BriliError path, exit status 2) and binds nothing; div on
\* nonnegative a and b > 0 binds its destination to floor(a / b).
DivByZeroReported ==
  [][ DivBefore =>
        IF ArgBefore(2).n = 0
          THEN status' = "exit2" /\ frames' = frames
          ELSE DivQuotient ]_vars

\* what the code does: with divisor 0 the run ends, with nothing bound, as an
\* uncaught exception of the host; the quotient is as the claim says
DivByZeroUncaught ==
  [][ DivBefore =>
        IF ArgBefore(2).n = 0
          THEN status' = "uncaught" /\ exc'.cls = "RangeError" /\ frames' = frames
          ELSE DivQuotient ]_vars

\* the strings of Argvs that are base-10 integers
DecimalStrings == {"1", "2"}

\* the strings given do not fit main's declared parameters: their number, a
\* string for a bool that is neither "true" nor "false", a string for an int
\* that is no integer, a parameter of a type no string can be bound to
MainArgsMismatch(params, argv) ==
  \/ Len(argv) # Len(params)
  \/ \E i \in 1..Len(params) :
       \/ params[i].type = "bool" /\ argv[i] \notin {"true", "false"}
       \/ params[i].type = "int" /\ argv[i] \notin DecimalStrings
       \/ params[i].type \notin {"int", "bool"}

\* C13: when the strings given do not fit main's declared parameters, the run
\* ends with a reported error (the BriliError path, exit status 2) before any
\* instruction of main has run.
MainArgsRejected ==
  (last.ev = "start" /\ MainArgsMismatch(last.instr.params, last.instr.argv))
    => (status = "exit2" /\ frames = <<>>)

\* what the code does: the number of strings and the strings for bool
\* parameters are checked and reported
MainArityAndBoolRejected ==
  (/\ last.ev = "start"
   /\ \/ Len(last.instr.argv) # Len(last.instr.params)
      \/ \E i \in 1..Len(last.instr.params) :
           /\ last.instr.params[i].type = "bool"
           /\ last.instr.argv[i] \notin {"true", "false"}
           /\ \A j \in 1..(i - 1) : last.instr.params[j].type # "int")
    => (status = "exit2" /\ frames = <<>>)

\* C14: an error ends the whole run where it is detected: from a state in
\* which an error has been raised no step is taken (no instruction of any
\* activation runs, no line is printed, no Env and no heap slot changes), and
\* the step that raises the error, at whatever depth of calls, leaves every
\* activation's Env and index, the heap and the lines printed so far as they
\* were.
ErrorsAbortRun ==
  [][ /\ ~Failed(status)
      /\ Failed(status') => (frames' = frames /\ heap' = heap /\ out' = out) ]_vars

\* an instruction of a callee has raised an error after a line was printed:
\* the line is still there and the activations are as the error found them
ErrorsAbortWitness ==
  /\ Failed(status)
  /\ Len(frames) >= 2
  /\ last.ev = "instr" /\ ~last.ended /\ last.func = Top.func
  /\ Len(out) >= 1

\* the parameter names of the function bound to the values the call's
\* arguments have in the caller's Env, every other name unbound
ParametersOnly(func, instr, env) ==
  [id \in Idents |->
     IF \E i \in 1..Len(func.args) : func.args[i].name = id
       THEN env[instr.args[CHOOSE i \in 1..Len(func.args) : func.args[i].name = id]]
       ELSE Undefined]

\* C15: a callee starts with an Env that holds its parameter names, bound to
\* the caller's argument values, and nothing else; while it runs, whatever it
\* and the activations it starts bind, the Envs of the activations below it do
\* not change; when it returns, the caller's Env differs from what it was at
\* most at the call's destination.
EnvIsolation ==
  [][ /\ (CallBefore /\ status' = "running") =>
           /\ Len(frames') = Len(frames) + 1
           /\ EnvAfter(Len(frames')) =
                ParametersOnly(FuncOf(last'.instr.name), last'.instr, Top.env)
           /\ EnvAfter(Len(frames)) = Top.env
      /\ \A k \in 1..(Len(frames) - 1) :
           IF k < Len(frames') \/ Len(frames') = Len(frames)
             THEN frames'[k] = frames[k]
             ELSE \A id \in Idents \ {last'.site.dest} :
                    EnvAfter(k)[id] = frames[k].env[id] ]_vars

\* the inner activation of rec, which bound x to 2 and a to 2, has returned
\* to the outer one, whose x is still 1 and whose a is still unbound, while
\* main's a is bound
EnvIsolationWitness ==
  /\ status = "running"
  /\ last.ended /\ last.func = "rec"
  /\ Len(frames) = 2 /\ Top.func = "rec"
  /\ Top.env["x"] = IntV(1)
  /\ Top.env["a"] = Undefined
  /\ frames[1].env["a"] = IntV(1)

\* a callee that read a local of its caller found it unbound
CallerLocalUnbound ==
  /\ status = "exit2" /\ exc.msg = "undefined-variable"
  /\ Len(frames) = 2 /\ last.func = "peek"
  /\ frames[1].env[last.instr.args[1]] # Undefined

\* C16: a load of a slot of a live block that no store has written since the
\* block was allocated raises the uninitialized-read error and binds nothing;
\* a store to another offset of the block does not change that.
UnwrittenSlotRejected ==
  [][ (Ran({"load"}) /\ PtrArgBefore(1) /\ HeapInBounds(heap, ArgBefore(1).loc)
        /\ ArgBefore(1).loc \notin DOMAIN shadow)
      => /\ Failed(status') /\ exc'.msg = "uninitialized-read"
         /\ frames' = frames /\ heap' = heap ]_vars

\* a load at offset 1 of a block was rejected as a read of an unwritten slot
\* after a store to offset 0 of the same block
UnwrittenSlotWitness ==
  /\ Failed(status) /\ exc.msg = "uninitialized-read"
  /\ last.ev = "instr" /\ last.instr.op = "load"
  /\ Top.env[last.instr.args[1]].loc.offset = 1
  /\ Key(Top.env[last.instr.args[1]].loc.base, 0) \in DOMAIN shadow

\* the runtime type a value stored through a pointer of this element type
\* must have
ElementTag(type) ==
  CASE type = "int" -> "bigint"
    [] type = "bool" -> "boolean"
    [] type = "ptr" -> "object"

\* the store's first argument is a pointer and its second a value of the
\* pointer's element type
StoreFits ==
  /\ TypeOf(ArgBefore(1)) = "object"
  /\ TypeOf(ArgBefore(2)) = ElementTag(ArgBefore(1).type)

\* C17: store checks its arguments before it writes: when the first is not a
\* pointer, or the second is unbound or has a runtime type other than the
\* pointer's element type (int, bool or ptr), store raises an error and no
\* heap slot is modified.
StoreTypeChecked ==
  [][ (Ran({"store"}) /\ Len(last'.instr.args) = 2 /\ ~StoreFits)
      => (Failed(status') /\ heap' = heap /\ frames' = frames) ]_vars

\* a store of an int through a pointer into a live block of pointers was
\* rejected
StoreTypeWitness ==
  /\ Failed(status)
  /\ last.ev = "instr" /\ last.instr.op = "store"
  /\ TypeOf(Top.env[last.instr.args[1]]) = "object"
  /\ Top.env[last.instr.args[1]].type = "ptr"
  /\ HeapInBounds(heap, Top.env[last.instr.args[1]].loc)
  /\ TypeOf(Top.env[last.instr.args[2]]) = "bigint"

\* the element type an alloc of this declared type gives its pointer: int,
\* bool, or ptr for a pointer to pointers
DeclaredElement(ptrType) ==
  CASE ptrType = "ptr<int>" -> "int"
    [] ptrType = "ptr<bool>" -> "bool"
    [] OTHER -> "ptr"

\* the step taken ran an alloc, typed with a pointer type, on an integer
AllocBefore ==
  /\ Ran({"alloc"}) /\ Len(last'.instr.args) = 1
  /\ TypeOf(ArgBefore(1)) = "bigint"
  /\ IsObjectType(last'.instr.type)

\* C18: alloc with a count <= 0 raises an error, creates no block and binds
\* nothing; with a count n > 0 it creates one block of n unwritten slots whose
\* identifier no block, live or freed, has had, leaves every other block as
\* it was, and binds its destination to the pointer to offset 0 of the new
\* block with the declared element type.
AllocCreatesFreshBlock ==
  [][ AllocBefore =>
        IF ArgBefore(1).n <= 0
          THEN Failed(status') /\ heap' = heap /\ frames' = frames
          ELSE /\ status' = "running"
               /\ \E b \in DOMAIN heap'.storage :
                    /\ b \notin DOMAIN heap.storage \cup FreedBlocks(heap)
                    /\ DOMAIN heap'.storage = DOMAIN heap.storage \cup {b}
                    /\ heap'.storage[b] = [k \in 1..ArgBefore(1).n |-> Undefined]
                    /\ \A old \in DOMAIN heap.storage :
                         heap'.storage[old] = heap.storage[old]
                    /\ EnvAfter(Len(frames)) =
                         [Top.env EXCEPT ![last'.instr.dest] =
                            Pointer(Key(b, 0), DeclaredElement(last'.instr.type))] ]_vars

\* an alloc of a block of pointers has just succeeded after another block was
\* freed: the new block is not the freed one
AllocFreshWitness ==
  /\ status = "running"
  /\ last.ev = "instr" /\ last.instr.op = "alloc"
  /\ last.instr.type = "ptr<ptr<int>>"
  /\ Top.env[last.instr.dest].type = "ptr"
  /\ FreedBlocks(heap) # {}
  /\ HeapLive(heap, Top.env[last.instr.dest].loc.base)

\* an alloc of 0 slots was rejected
AllocZeroRejected ==
  /\ Failed(status) /\ exc.msg = "alloc-size"
  /\ last.ev = "instr" /\ last.instr.op = "alloc"
  /\ Top.env[last.instr.args[1]] = IntV(0)

\* the operations that take a fixed number of arguments, and that number
FixedArityOps ==
  {"add", "sub", "mul", "div", "lt", "le", "gt", "ge", "eq", "and", "or",
   "store", "ptradd", "id", "not", "jmp", "alloc", "free", "load", "br", "nop"}

FixedArity(op) ==
  CASE op \in {"add", "sub", "mul", "div", "lt", "le", "gt", "ge", "eq", "and",
               "or", "store", "ptradd"} -> 2
    [] op \in {"id", "not", "jmp", "alloc", "free", "load"} -> 1
    [] op = "br" -> 3
    [] op = "nop" -> 0

\* the arity error was raised and nothing changed
ArityErrorOnly ==
  /\ status' = "exit2" /\ exc'.msg = "arity"
  /\ frames' = frames /\ heap' = heap /\ out' = out

\* C19: the argument count is checked before anything else: an operation
\* with a fixed number of arguments given another number raises the arity
\* error and changes neither Env nor heap, whether or not its arguments are
\* bound and of the right type; ret with more than one argument raises the
\* arity error; print takes any number of arguments.
ArityValidatedFirst ==
  [][ /\ (Ran(FixedArityOps) /\ Len(last'.instr.args) # FixedArity(last'.instr.op))
         => ArityErrorOnly
      /\ (Ran({"ret"}) /\ Len(last'.instr.args) > 1) => ArityErrorOnly
      /\ (Ran({"print"})
            /\ \A i \in 1..Len(last'.instr.args) : ArgBefore(i) # Undefined)
         => /\ status' = "running"
            /\ Len(out') = Len(out) + 1
            /\ Len(out'[Len(out')]) = Len(last'.instr.args) ]_vars

\* an add with three arguments, one of them unbound, raised the arity error
ArityWitness ==
  /\ status = "exit2" /\ exc.msg = "arity"
  /\ last.ev = "instr" /\ last.instr.op = "add"
  /\ Len(last.instr.args) = 3
  /\ \E i \in 1..3 : Top.env[last.instr.args[i]] = Undefined

\* a print without arguments has printed an empty line
PrintNoArguments ==
  /\ status = "running"
  /\ last.ev = "instr" /\ last.instr.op = "print"
  /\ Len(last.instr.args) = 0
  /\ out # <<>> /\ out[Len(out)] = <<>>

\* the state a ret without arguments, run by the top activation now, leads to
RetNow == AfterInstr(evalInstr(EOp("ret", <<>>), Top.env, heap, out), frames)

\* the step taken ran an operation that neither jumps nor returns, and the
\* run goes on
FellThrough ==
  /\ Ran(KnownOps \cup {"const"}) /\ last'.instr.op \notin {"jmp", "br", "ret"}
  /\ status' = "running"

\* C20: an activation starts at index 0; an operation that falls through
\* moves the index on by one, and so does the call a callee returns to; a
\* label entry moves the index on by one and changes nothing else; an
\* activation whose index has passed the last entry ends exactly as a ret
\* without value would end it; a ret ends its activation at once.
FunctionStateMachine ==
  [][ /\ (status = "init" /\ status' = "running") => frames'[1].i = 0
      /\ (CallBefore /\ status' = "running") => frames'[Len(frames')].i = 0
      /\ FellThrough =>
           /\ Len(frames') = Len(frames)
           /\ frames'[Len(frames)].func = Top.func
           /\ frames'[Len(frames)].i = Top.i + 1
      /\ (status = "running" /\ last'.ev = "label") =>
           /\ status' = "running"
           /\ frames' = WithTop(frames, [Top EXCEPT !.i = Top.i + 1])
           /\ heap' = heap /\ out' = out
      /\ (status = "running" /\ last'.ev = "end") =>
           /\ Top.func # "main" => Top.i = Len(InstrsOf(Top.func))
           /\ status' = RetNow.status /\ exc' = RetNow.exc
           /\ frames' = RetNow.frames /\ heap' = RetNow.heap /\ out' = RetNow.out
      /\ (Ran({"ret"}) /\ status' = "running") =>
           /\ Len(frames') = Len(frames) - 1
           /\ frames'[Len(frames')].func = frames[Len(frames')].func
           /\ frames'[Len(frames')].i = frames[Len(frames')].i + 1 ]_vars

\* the activation of tail, which jumped to the label that is its last entry,
\* has ended and its caller goes on
FunctionStateMachineWitness ==
  /\ status = "running"
  /\ last.ev = "end" /\ last.func = "tail" /\ last.val = Null
  /\ Len(frames) = 1 /\ Top.i >= 1

\* the activation of a function without entries has ended
EmptyBodyEnds ==
  /\ status = "running"
  /\ last.ev = "end" /\ last.func = "empty"
  /\ Len(frames) = 1

\* the pointer carries the element type its block's alloc declared
PointerTyped(v) ==
  TypeOf(v) = "object"
    => /\ v.loc.base \in DOMAIN declared
       /\ v.type = DeclaredElement(declared[v.loc.base])

\* every pointer the run holds (in an Env of an activation, in a slot of a
\* live block, or carried by a return) has its block's element type, and every
\* written slot of a live block holds a value of the block's element type
HeapTyped ==
  /\ \A k \in 1..Len(frames) : \A id \in Idents : PointerTyped(frames[k].env[id])
  /\ PointerTyped(last.val)
  /\ \A b \in DOMAIN heap.storage : \A k \in 1..Len(heap.storage[b]) :
       LET slot == heap.storage[b][k]
       IN  /\ PointerTyped(slot)
           /\ slot # Undefined
                => TypeOf(slot) = ElementTag(DeclaredElement(declared[b]))

\* C21: in every state the run reaches, every pointer to a block carries the
\* element type the block's alloc fixed (id, ptradd, argument passing, return,
\* store and load of pointers keep it) and every written slot of a live block
\* holds a value of that runtime type; so every load that succeeds through a
\* pointer of element type t binds a value of runtime type t.
HeapTypingInvariant ==
  [][ /\ HeapTyped'
      /\ (Ran({"load"}) /\ status' = "running")
         => TypeOf(EnvAfter(Len(frames))[last'.instr.dest]) =
              ElementTag(ArgBefore(1).type) ]_vars

\* a load through a pointer into a block of pointers has just bound a
\* pointer, into a block of ints
HeapTypingWitness ==
  /\ status = "running"
  /\ last.ev = "instr" /\ last.instr.op = "load"
  /\ Top.env[last.instr.args[1]].type = "ptr"
  /\ TypeOf(Top.env[last.instr.dest]) = "object"
  /\ Top.env[last.instr.dest].type = "int"

\* a callee was handed a pointer as its argument and holds it as the caller
\* does, element type included
PointerPassedTyped ==
  /\ status = "running" /\ Len(frames) = 2
  /\ last.ev = "call" /\ last.instr.name = "deref"
  /\ TypeOf(Top.env["p"]) = "object"
  /\ Top.env["p"] = frames[1].env[last.instr.args[1]]

\* the function's list holds no jmp, no br and no call
StraightLine(func) ==
  \A k \in 1..Len(InstrsOf(func)) :
    IsOp(InstrsOf(func)[k]) => InstrsOf(func)[k].op \notin {"jmp", "br", "call"}

\* an activation of a callee without jumps and calls is running
InStraightLine ==
  /\ status = "running" /\ Len(frames) >= 2
  /\ StraightLine(Top.func)

\* the step taken is a turn of the loop of a callee without jumps and calls:
\* an entry was left at the index, and the turn moves the index on by one,
\* ends the activation or ends the run
StraightLineTurn ==
  (InStraightLine /\ last'.ev \in {"instr", "label"}) =>
    /\ Top.i < Len(InstrsOf(Top.func))
    /\ \/ Failed(status')
       \/ status' = "running" /\ Len(frames') = Len(frames) - 1
       \/ /\ status' = "running" /\ Len(frames') = Len(frames)
          /\ frames'[Len(frames)].i = Top.i + 1

\* the index of an activation that stays goes down only by a jump of that
\* activation to a label at a lower index
IndexDecreasesByJumpOnly ==
  \A k \in 1..Len(frames) :
    (k <= Len(frames') /\ frames'[k].i < frames[k].i) =>
      /\ k = Len(frames) /\ Len(frames') = Len(frames)
      /\ Ran({"jmp", "br"})
      /\ InstrsOf(Top.func)[frames'[k].i] \in
           {Lbl(last'.instr.args[j]) : j \in 1..Len(last'.instr.args)}
      /\ frames'[k].i - 1 < Top.i

\* the loop of a callee never holds an index beyond the end of its list
IndexWithinList ==
  \A k \in 2..Len(frames') : frames'[k].i <= Len(InstrsOf(frames'[k].func))

\* the entry at the index is one the bounds of the model do not let run: a
\* print when MaxOut lines are printed, an alloc when MaxAllocs blocks were
\* handed out
StoppedByBound ==
  /\ InStraightLine /\ Top.i < Len(InstrsOf(Top.func))
  /\ LET line == InstrsOf(Top.func)[Top.i + 1]
     IN  /\ IsOp(line)
         /\ \/ line.op = "print" /\ Len(out) = MaxOut
            \/ line.op = "alloc" /\ heap.count = MaxAllocs

\* every turn of a loop keeps to the three rules above
IndexDiscipline ==
  [][StraightLineTurn /\ IndexDecreasesByJumpOnly /\ IndexWithinList]_vars

\* C22: an activation of a function without jmp, br and call runs at most as
\* many entries as its list has, because every turn of its loop finds an
\* entry at the index and moves the index on by one until the activation ends
\* (by ret, at the end of the list, or by an error): it always ends.  An index
\* goes down only by a jump to a label at a lower index.
StraightLineTerminates ==
  /\ IndexDiscipline
  /\ InStraightLine ~> (~InStraightLine \/ StoppedByBound)

\* a turn of the loop of a callee without jumps and calls
StraightLineStep == InStraightLine /\ Next

\* the runs of the programs of StraightPool
InitStraight ==
  /\ pool = "straight"
  /\ status = "init"
  /\ exc = NoExc
  /\ frames = <<>>
  /\ heap = EmptyHeap
  /\ out = <<>>
  /\ last = Event("none", NoSite, "none")
  /\ shadow = <<>>
  /\ declared = <<>>

\* the loop is synchronous code: it always takes its next turn
FairSpec == InitStraight /\ [][Next]_vars /\ WF_vars(StraightLineStep)

\* the activation of ident, which printed and returned, has ended at index 1
\* of a list of two entries
StraightLineWitness ==
  /\ status = "running"
  /\ last.ended /\ last.func = "ident" /\ last.instr.op = "ret"
  /\ Len(frames) = 1

\* a jump backwards has moved an index down
IndexWentDown ==
  /\ status = "running"
  /\ last.ev = "instr" /\ last.instr.op = "br" /\ last.func = "spin"
  /\ Top.func = "spin" /\ Top.i = 1

====
